---- MODULE Spec2Model ----
(***************************************************************************)
(* Model of the Data Cleaning page of the scholarship dashboard            *)
(* (src/app_streamlit/pages/2_Data_Cleaning.py): the two text functions    *)
(* build_scholarship_text and clean_scholarship_text, and the session      *)
(* state machine of the page (Load Raw Scholarship Data, Clear Loaded      *)
(* Data, Apply Cleaning).                                                  *)
(*                                                                         *)
(* A text is a sequence of characters; a character is a one-character      *)
(* string, a non-ASCII character is written by its code point ("U+2013").  *)
(***************************************************************************)
EXTENDS Integers, Sequences, FiniteSets, TLC

VARIABLES
    workspace_path,           \* st.session_state.workspace_path
    workspace_files,          \* the four candidate files of the workspace
    heap,                     \* the DataFrame objects alive, by reference
    raw_scholarships_df,      \* st.session_state.raw_scholarships_df
    cleaned_scholarships_df,  \* st.session_state.cleaned_scholarships_df
    applied,                  \* history: options and input of the last Apply Cleaning
    loaded,                   \* history: outcome of Load Raw Scholarship Data, when it ran last
    record,                   \* build_scholarship_text: the argument
    text,                     \* clean_scholarship_text: the argument
    result,                   \* text functions: the value returned
    pc                        \* text functions: what has been called so far

vars == <<workspace_path, workspace_files, heap, raw_scholarships_df, cleaned_scholarships_df,
          applied, loaded, record, text, result, pc>>

\* a session-state entry holding None, where an object reference is 1, 2, ...
None == 0

----------------------------------------------------------------------------
(* Characters *)

NL == "\n"
TAB == "\t"
CR == "\r"
SP == " "
NBSP == "U+00A0"
ZWSP == "U+200B"
ENDASH == "U+2013"
EMDASH == "U+2014"
BULLET == "U+2022"
EACUTE == "U+00E9"
COMBACUTE == "U+0301"
FULLWIDTHAT == "U+FF20"

\* [\u200b\u200c\u200d\u2060\ufeff]
ZeroWidth == {"U+200B", "U+200C", "U+200D", "U+2060", "U+FEFF"}

\* the ten bullet glyphs of the bullet rule
Bullets == {"U+2022", "U+25CF", "U+25AA", "U+25A0", "U+25C6", "U+25B6",
            "U+25BA", "U+25B8", "U+29BF", "U+29BE"}

Digits == {"0", "1", "2", "3", "4", "5", "6", "7", "8", "9"}

LowerLetters == {"a", "b", "c", "d", "e", "f", "g", "h", "i", "j", "k", "l", "m",
                 "n", "o", "p", "q", "r", "s", "t", "u", "v", "w", "x", "y", "z"}

\* \s of a str pattern, and the characters str.strip() removes
IsSpace(c) == c \in {SP, TAB, NL, CR, NBSP}

\* \d
IsDigit(c) == c \in Digits

\* [\d\-\s\(\)]
IsPhoneBody(c) == IsDigit(c) \/ c = "-" \/ IsSpace(c) \/ c = "(" \/ c = ")"

----------------------------------------------------------------------------
(* Sequences of characters *)

RECURSIVE Flatten(_)
Flatten(ss) == IF ss = <<>> THEN <<>> ELSE Head(ss) \o Flatten(Tail(ss))

\* sep.join(parts)
RECURSIVE Join(_, _)
Join(sep, parts) ==
    IF parts = <<>> THEN <<>>
    ELSE IF Len(parts) = 1 THEN parts[1]
    ELSE parts[1] \o sep \o Join(sep, Tail(parts))

\* s[i..], s[..j] as Python slices s[i-1:], s[:j]
From(s, i) == SubSeq(s, i, Len(s))

\* the last position of the run of characters satisfying the class that starts
\* at position i; i - 1 when s[i] is not in the class
RECURSIVE RunEnd(_, _, _)
RunEnd(class, s, i) ==
    IF i > Len(s) THEN i - 1
    ELSE LET member == CASE class = "nonspace" -> ~IsSpace(s[i])
                     [] class = "phone" -> IsPhoneBody(s[i])
                     [] class = "nottagend" -> s[i] # ">"
                     [] class = "lower" -> s[i] \in LowerLetters
                     [] class = "space" -> s[i] = SP
                     [] class = "newline" -> s[i] = NL
         IN IF member THEN RunEnd(class, s, i + 1) ELSE i - 1

\* s[i..] starts with the literal p
HasPrefix(s, i, p) ==
    /\ i + Len(p) - 1 <= Len(s)
    /\ \A k \in 1..Len(p) : s[i + k - 1] = p[k]

----------------------------------------------------------------------------
(* unicodedata.normalize("NFKD", text): every character is replaced by its   *)
(* compatibility decomposition, and nothing is recomposed.                   *)

Decomposition(c) ==
    CASE c = NBSP -> <<SP>>
      [] c = EACUTE -> <<"e", COMBACUTE>>
      [] c = FULLWIDTHAT -> <<"@">>
      [] c = "U+FF11" -> <<"1">>
      [] OTHER -> <<c>>

NFKD(s) == Flatten([i \in 1..Len(s) |-> Decomposition(s[i])])

----------------------------------------------------------------------------
(* re.sub(pattern, repl, text): the leftmost match is replaced, the scan     *)
(* goes on after it; a position no match starts at keeps its character.      *)
(* MatchEnd(rule, s, i) is the last position of the (greedy, backtracking)   *)
(* match of the rule's pattern that starts at i, and 0 when none starts      *)
(* there.                                                                    *)

\* \S+@\S+ : both \S+ stay inside the run of non-space characters that starts
\* at i; the first gives characters back down to an "@" that has a non-space
\* character after it, the second then runs to the end of the run
MatchEmail(s, i) ==
    LET e == RunEnd("nonspace", s, i)
    IN IF \E j \in (i + 1)..(e - 1) : s[j] = "@" THEN e ELSE 0

\* \+?\d[\d\-\s\(\)]{7,}\d : the class run is taken whole and given back down
\* to its last digit, which must leave seven characters or more before it
MatchPhone(s, i) ==
    LET p == IF s[i] = "+" THEN i + 1 ELSE i
    IN IF p > Len(s) \/ ~IsDigit(s[p]) THEN 0
       ELSE LET q == RunEnd("phone", s, p + 1)
                ends == {e \in (p + 8)..q : IsDigit(s[e])}
            IN IF ends = {} THEN 0
               ELSE CHOOSE e \in ends : \A f \in ends : f <= e

\* (https?:\/\/\S+|www\.\S+)
MatchURL(s, i) ==
    LET http == <<"h", "t", "t", "p", ":", "/", "/">>
        https == <<"h", "t", "t", "p", "s", ":", "/", "/">>
        www == <<"w", "w", "w", ".">>
        n == IF HasPrefix(s, i, https) THEN Len(https)
             ELSE IF HasPrefix(s, i, http) THEN Len(http)
             ELSE IF HasPrefix(s, i, www) THEN Len(www)
             ELSE 0
        e == RunEnd("nonspace", s, i + n)
    IN IF n > 0 /\ e >= i + n THEN e ELSE 0

\* <[^>]+>
MatchTag(s, i) ==
    IF s[i] # "<" THEN 0
    ELSE LET e == RunEnd("nottagend", s, i + 1)
         IN IF e >= i + 1 /\ e + 1 <= Len(s) THEN e + 1 ELSE 0

\* &[a-z]+;
MatchEntity(s, i) ==
    IF s[i] # "&" THEN 0
    ELSE LET e == RunEnd("lower", s, i + 1)
         IN IF e >= i + 1 /\ e + 1 <= Len(s) /\ s[e + 1] = ";" THEN e + 1 ELSE 0

\* " {2,}" and \n{3,}
MatchRun(class, atLeast, s, i) ==
    LET e == RunEnd(class, s, i)
    IN IF e - i + 1 >= atLeast THEN e ELSE 0

MatchEnd(rule, s, i) ==
    CASE rule = "zerowidth" -> IF s[i] \in ZeroWidth THEN i ELSE 0
      [] rule = "email" -> MatchEmail(s, i)
      [] rule = "phone" -> MatchPhone(s, i)
      [] rule = "url" -> MatchURL(s, i)
      [] rule = "tag" -> MatchTag(s, i)
      [] rule = "entity" -> MatchEntity(s, i)
      [] rule = "bullet" -> IF s[i] \in Bullets THEN i ELSE 0
      [] rule = "spaces" -> MatchRun("space", 2, s, i)
      [] rule = "newlines" -> MatchRun("newline", 3, s, i)

RECURSIVE SubFrom(_, _, _, _)
SubFrom(rule, repl, s, i) ==
    IF i > Len(s) THEN <<>>
    ELSE LET e == MatchEnd(rule, s, i)
         IN IF e = 0 THEN <<s[i]>> \o SubFrom(rule, repl, s, i + 1)
            ELSE repl \o SubFrom(rule, repl, s, e + 1)

ReSub(rule, repl, s) == SubFrom(rule, repl, s, 1)

\* text.replace(old, new) for a one-character old
Replace(s, old, new) == [i \in 1..Len(s) |-> IF s[i] = old THEN new ELSE s[i]]

\* text.split("\n")
RECURSIVE SplitFrom(_, _, _)
SplitFrom(s, i, cur) ==
    IF i > Len(s) THEN <<cur>>
    ELSE IF s[i] = NL THEN <<cur>> \o SplitFrom(s, i + 1, <<>>)
    ELSE SplitFrom(s, i + 1, Append(cur, s[i]))

SplitLines(s) == SplitFrom(s, 1, <<>>)

\* str.strip()
RECURSIVE LStrip(_)
LStrip(s) == IF s # <<>> /\ IsSpace(s[1]) THEN LStrip(Tail(s)) ELSE s

RECURSIVE RStrip(_)
RStrip(s) ==
    IF s # <<>> /\ IsSpace(s[Len(s)]) THEN RStrip(SubSeq(s, 1, Len(s) - 1)) ELSE s

Strip(s) == RStrip(LStrip(s))

\* the loop over lines: a blank line is kept only when the line before it
\* was not blank
\* the loop without "blank_seen = False" after a line that is not blank
RECURSIVE CollapseBlankNoReset(_, _, _)
CollapseBlankNoReset(lines, i, blank_seen) ==
    IF i > Len(lines) THEN <<>>
    ELSE IF lines[i] = <<>>
         THEN (IF ~blank_seen THEN <<lines[i]>> ELSE <<>>)
              \o CollapseBlankNoReset(lines, i + 1, TRUE)
         ELSE <<lines[i]>> \o CollapseBlankNoReset(lines, i + 1, blank_seen)

RECURSIVE CollapseBlank(_, _, _)
CollapseBlank(lines, i, blank_seen) ==
    IF i > Len(lines) THEN <<>>
    ELSE IF lines[i] = <<>>
         THEN (IF ~blank_seen THEN <<lines[i]>> ELSE <<>>)
              \o CollapseBlank(lines, i + 1, TRUE)
         ELSE <<lines[i]>> \o CollapseBlank(lines, i + 1, FALSE)

\* [line.strip() for line in lines]
StripEach(lines) == [i \in 1..Len(lines) |-> Strip(lines[i])]

(* clean_scholarship_text of a str, statement by statement: each operator  *)
(* is the value of the variable text (or lines, final_lines) after the     *)
(* statement it is named after.                                            *)

Normalized(s0) == NFKD(s0)
NoZeroWidth(s0) == ReSub("zerowidth", <<>>, Normalized(s0))
\* the email statement left out
EmailsKept(s0) == NoZeroWidth(s0)

NoEmails(s0) == ReSub("email", <<SP>>, NoZeroWidth(s0))
NoPhones(s0) == ReSub("phone", <<SP>>, NoEmails(s0))
\* the URL statement left out
URLsKept(s0) == NoPhones(s0)

NoURLs(s0) == ReSub("url", <<SP>>, NoPhones(s0))
\* the tag statement with "" for " "
TagsDeleted(s0) == ReSub("tag", <<>>, NoURLs(s0))

NoTags(s0) == ReSub("tag", <<SP>>, NoURLs(s0))
NoEntities(s0) == ReSub("entity", <<SP>>, NoTags(s0))
DashBullets(s0) == ReSub("bullet", <<"-", SP>>, NoEntities(s0))
AsciiDashes(s0) == Replace(Replace(DashBullets(s0), ENDASH, "-"), EMDASH, "-")
NoTabs(s0) == Replace(AsciiDashes(s0), TAB, SP)
\* the statement collapsing runs of spaces left out
SpacesKept(s0) == NoTabs(s0)

\* runs of spaces collapsed before the tabs are replaced
SpacesBeforeTabs(s0) == Replace(ReSub("spaces", <<SP>>, AsciiDashes(s0)), TAB, SP)

SingleSpaces(s0) == ReSub("spaces", <<SP>>, NoTabs(s0))
CleanedLines(s0) == StripEach(SplitLines(SingleSpaces(s0)))
FinalLines(s0) == CollapseBlank(CleanedLines(s0), 1, FALSE)
Joined(s0) == Join(<<NL>>, FinalLines(s0))
CleanStr(s0) == Strip(ReSub("newlines", <<NL, NL>>, Joined(s0)))

----------------------------------------------------------------------------
(* Values of a cell: a str, a missing value (None, NaN), or an int *)

Str(s) == [kind |-> "str", s |-> s, n |-> 0]
Null == [kind |-> "null", s |-> <<>>, n |-> 0]
PyInt(n) == [kind |-> "int", s |-> <<>>, n |-> n]

\* pd.notnull(value)
NotNull(v) == v.kind # "null"

DigitChar(d) ==
    CASE d = 0 -> "0" [] d = 1 -> "1" [] d = 2 -> "2" [] d = 3 -> "3" [] d = 4 -> "4"
      [] d = 5 -> "5" [] d = 6 -> "6" [] d = 7 -> "7" [] d = 8 -> "8" [] d = 9 -> "9"

RECURSIVE Decimal(_)
Decimal(n) == IF n < 10 THEN <<DigitChar(n)>> ELSE Append(Decimal(n \div 10), DigitChar(n % 10))

\* str(value) of a value that is not missing
PyStr(v) == IF v.kind = "str" THEN v.s ELSE Decimal(v.n)

----------------------------------------------------------------------------
(* A row handed to DataFrame.apply(axis=1): the column labels and the cells *)

\* the if statements for Eligibility and Benefits exchanged
RecognizedFieldsExchanged ==
    <<"Scholarship Name", "Provider", "Country", "Benefits", "Eligibility",
      "Program", "Deadline", "Application Link">>

\* the eight fields, in the order of the eight if statements
RecognizedFields ==
    <<"Scholarship Name", "Provider", "Country", "Eligibility", "Benefits",
      "Program", "Deadline", "Application Link">>

FieldChars(name) ==
    CASE name = "Scholarship Name" ->
           <<"S", "c", "h", "o", "l", "a", "r", "s", "h", "i", "p", " ", "N", "a", "m", "e">>
      [] name = "Provider" ->
           <<"P", "r", "o", "v", "i", "d", "e", "r">>
      [] name = "Country" ->
           <<"C", "o", "u", "n", "t", "r", "y">>
      [] name = "Eligibility" ->
           <<"E", "l", "i", "g", "i", "b", "i", "l", "i", "t", "y">>
      [] name = "Benefits" ->
           <<"B", "e", "n", "e", "f", "i", "t", "s">>
      [] name = "Program" ->
           <<"P", "r", "o", "g", "r", "a", "m">>
      [] name = "Deadline" ->
           <<"D", "e", "a", "d", "l", "i", "n", "e">>
      [] name = "Application Link" ->
           <<"A", "p", "p", "l", "i", "c", "a", "t", "i", "o", "n", " ", "L", "i", "n", "k">>

HasColumn(columns, name) == \E k \in 1..Len(columns) : columns[k] = name

ColumnPos(columns, name) == CHOOSE k \in 1..Len(columns) : columns[k] = name

\* row.get(name): the cell, None when the row has no such label
RowGet(row, name) ==
    IF HasColumn(row.columns, name) THEN row.cells[ColumnPos(row.columns, name)]
    ELSE Null

\* one if statement: the part appended for the field, if any
FieldPart(row, name) ==
    IF NotNull(RowGet(row, name))
    THEN <<FieldChars(name) \o <<":", NL>> \o PyStr(RowGet(row, name))>>
    ELSE <<>>

\* parts, after the eight if statements
BuildParts(row) ==
    Flatten([k \in 1..Len(RecognizedFields) |-> FieldPart(row, RecognizedFields[k])])

build_scholarship_text(row) == Join(<<NL>>, BuildParts(row))


----------------------------------------------------------------------------
(* DataFrames: the column labels in order, and the rows in order, each with  *)
(* its index label and its cells in column order.                            *)

RowOf(df, i) == [columns |-> df.columns, cells |-> df.rows[i].cells]

\* df[name]
ColumnValues(df, name) ==
    LET k == ColumnPos(df.columns, name)
    IN [i \in 1..Len(df.rows) |-> df.rows[i].cells[k]]

\* df[name] = values: an existing column is overwritten, a new one is appended
SetColumn(df, name, values) ==
    IF HasColumn(df.columns, name)
    THEN LET k == ColumnPos(df.columns, name)
         IN [df EXCEPT !.rows = [i \in 1..Len(df.rows) |->
                [df.rows[i] EXCEPT !.cells[k] = values[i]]]]
    ELSE [columns |-> Append(df.columns, name),
          rows |-> [i \in 1..Len(df.rows) |->
             [df.rows[i] EXCEPT !.cells = Append(@, values[i])]]]

\* df.drop_duplicates(subset=[name], keep='first')
\* keep='last'
RECURSIVE KeepLast(_, _, _)
KeepLast(rows, keys, i) ==
    IF i > Len(rows) THEN <<>>
    ELSE (IF \E j \in (i + 1)..Len(rows) : keys[j] = keys[i] THEN <<>> ELSE <<rows[i]>>)
         \o KeepLast(rows, keys, i + 1)

RECURSIVE KeepFirst(_, _, _)
KeepFirst(rows, keys, i) ==
    IF i > Len(rows) THEN <<>>
    ELSE (IF \E j \in 1..(i - 1) : keys[j] = keys[i] THEN <<>> ELSE <<rows[i]>>)
         \o KeepFirst(rows, keys, i + 1)

DropDuplicates(df, name) ==
    [df EXCEPT !.rows = KeepFirst(df.rows, ColumnValues(df, name), 1)]

----------------------------------------------------------------------------
(* Bounds and inputs *)

\* rows of a table loaded from the workspace
MaxRows == 2

\* pieces a text given to clean_scholarship_text is made of
MaxPieces == 4

\* the texts of at most n pieces
OnePieceMore(pieces, shorter) == shorter \cup {p \o t : p \in pieces, t \in shorter}

RECURSIVE PieceTexts(_, _)
PieceTexts(pieces, n) ==
    IF n = 0 THEN {<<>>} ELSE OnePieceMore(pieces, PieceTexts(pieces, n - 1))

CleanPieces ==
    {<<"a">>, <<"@">>, <<SP>>, <<NL>>, <<"1", "2", "3", "4">>, <<ENDASH>>,
     <<"<", "b", ">">>, <<ZWSP>>, <<"a", "@", "a">>}

CleanInputs ==
    {Str(t) : t \in PieceTexts(CleanPieces, MaxPieces)} \cup {Null, PyInt(7)}

\* the cells a column of a loaded table may hold
CellValues(name) ==
    CASE name = "Eligibility" -> {Null, Str(<<"a", SP, "b">>), Str(<<"a", SP, SP, "b">>)}
      [] name = "scholarship_text_raw" -> {PyInt(7), Str(<<"x", SP>>)}
      [] OTHER -> {Null, Str(<<"x", SP>>)}

Layouts ==
    {<<>>, <<"Eligibility">>, <<"notes">>, <<"scholarship_text_raw">>,
     <<"Eligibility", "Scholarship Name">>, <<"Eligibility", "scholarship_text_cleaned">>,
     <<"scholarship_id">>, <<"scholarship_text_cleaned">>}

RowCells(columns) ==
    {cells \in [1..Len(columns) -> UNION {CellValues(columns[k]) : k \in 1..Len(columns)}] :
        \A k \in 1..Len(columns) : cells[k] \in CellValues(columns[k])}

\* a table as pd.read_csv or pd.DataFrame(data) returns it: a RangeIndex
FrameOf(columns, cellRows) ==
    [columns |-> columns,
     rows |-> [i \in 1..Len(cellRows) |-> [index |-> i - 1, cells |-> cellRows[i]]]]

Frames(columns, n) ==
    {FrameOf(columns, cellRows) : cellRows \in [1..n -> RowCells(columns)]}

\* five records, the third a duplicate of the first by cleaned text
FiveRecords ==
    FrameOf(<<"Scholarship Name">>,
            <<<<Str(<<"A">>)>>, <<Str(<<"B">>)>>, <<Str(<<SP, "A">>)>>,
              <<Str(<<"C">>)>>, <<Str(<<"D">>)>>>>)

RawFrames ==
    UNION {Frames(columns, n) : columns \in Layouts, n \in 0..MaxRows} \cup {FiveRecords}


(* Tables of two records whose Eligibility texts differ by one piece of     *)
(* noise: a space or a tab more in a run of them, a tab for a space, one    *)
(* more blank line where there is one, or the case of one letter.           *)

MaxNoisePieces == 3

NoisePieces == {<<"a">>, <<SP>>, <<NL>>, <<"1", "2", "3", "4", "5", "6">>, <<"7">>}

InsertAfter(s, k, c) == SubSeq(s, 1, k) \o <<c>> \o SubSeq(s, k + 1, Len(s))

WhitespaceEdits(s) ==
    {InsertAfter(s, k, c) : k \in {j \in 1..Len(s) : s[j] \in {SP, TAB}}, c \in {SP, TAB}}
    \cup {[s EXCEPT ![k] = TAB] : k \in {j \in 1..Len(s) : s[j] = SP}}
    \cup {InsertAfter(s, k, NL) : k \in {j \in 1..(Len(s) - 1) : s[j] = NL /\ s[j + 1] = NL}}

CaseEdits(s) == {[s EXCEPT ![k] = "A"] : k \in {j \in 1..Len(s) : s[j] = "a"}}

NoisePairs(s) ==
    UNION {{FrameOf(<<"Eligibility">>, <<<<Str(s)>>, <<Str(t)>>>>),
            FrameOf(<<"Eligibility">>, <<<<Str(t)>>, <<Str(s)>>>>)}
           : t \in WhitespaceEdits(s) \cup CaseEdits(s)}

NoiseFrames == UNION {NoisePairs(s) : s \in PieceTexts(NoisePieces, MaxNoisePieces)}

(* Tables of one record whose Eligibility text is made of URL prefixes and *)
(* of what the later rules replace, and a table of two identical records.  *)

MaxURLPieces == 3

URLPieces ==
    {<<"w", "w", "w", ".">>, <<"h", "t", "t", "p", ":", "/", "/">>,
     <<"h", "t", "t", "p", "s", ":", "/", "/">>, <<"w">>, <<SP>>, <<"<", "b", ">">>,
     <<BULLET>>}

\* "Email: x@y.com   see   www.foo.com"
EmailAndURL ==
    Str(
     <<"E", "m", "a", "i", "l", ":", SP, "x", "@", "y", ".", "c", "o", "m",
     SP, SP, SP, "s", "e", "e", SP, SP, SP, "w", "w", "w", ".", "f", "o",
     "o", ".", "c", "o", "m">>)

URLTexts == {Str(t) : t \in PieceTexts(URLPieces, MaxURLPieces)} \cup {EmailAndURL}

URLFrames ==
    {FrameOf(<<"Eligibility">>, <<<<t>>>>) : t \in URLTexts}
    \cup {FrameOf(<<"Eligibility">>, <<<<EmailAndURL>>, <<EmailAndURL>>>>)}

\* one table for each candidate file, so that a loaded table tells its file
SessionFrame(k) ==
    FrameOf(<<"Scholarship Name">>,
            <<<<Str(<<CASE k = 1 -> "A" [] k = 2 -> "B" [] k = 3 -> "C" [] OTHER -> "D">>)>>>>)

\* the tables a specification may find in the workspace
LoadableFrames ==
    RawFrames \cup NoiseFrames \cup URLFrames \cup {SessionFrame(k) : k \in 1..4}

\* the texts Apply Cleaning can meet in these tables: the cells and the texts
\* combined from the rows
KnownTexts ==
    UNION {{build_scholarship_text(RowOf(df, i)) : i \in 1..Len(df.rows)}
           \cup {df.rows[i].cells[k].s : i \in 1..Len(df.rows), k \in 1..Len(df.columns)}
           : df \in LoadableFrames}

\* clean_scholarship_text on the known texts, computed once
CleanedKnown == [t \in KnownTexts |-> CleanStr(t)]

\* text = str(text) in place of the isinstance test
CleanOfStr(v) == CleanStr(IF v.kind = "null" THEN <<"n", "a", "n">> ELSE PyStr(v))

clean_scholarship_text(v) ==
    IF v.kind # "str" THEN <<>>
    ELSE IF v.s \in KnownTexts THEN CleanedKnown[v.s]
    ELSE CleanStr(v.s)

----------------------------------------------------------------------------
(* The DataFrame objects: heap maps the references alive to the objects.     *)
(* A step of Apply Cleaning takes and returns [heap, ref]: the objects and   *)
(* the object the local name cleaned_df is bound to.                         *)

NewRef(h) == CHOOSE r \in 1..(Cardinality(DOMAIN h) + 1) : r \notin DOMAIN h

\* The objects the session state still references once a handler is over, the
\* others being garbage. References are only ever compared with each other, so
\* the survivors are renumbered: the raw table's object first.
RefAfter(r, raw) ==
    IF r = None THEN None
    ELSE IF r = raw \/ raw = None THEN 1
    ELSE 2

HeapAfter(h, raw, cleaned) ==
    [n \in {RefAfter(r, raw) : r \in {raw, cleaned} \ {None}} |->
        h[CHOOSE r \in {raw, cleaned} \ {None} : RefAfter(r, raw) = n]]

\* the session state a handler leaves, m being [heap, ref] with the new
\* cleaned table at ref
SessionAfter(m, raw) ==
    [heap |-> HeapAfter(m.heap, raw, m.ref),
     raw_scholarships_df |-> RefAfter(raw, raw),
     cleaned_scholarships_df |-> RefAfter(m.ref, raw)]

\* cleaned_df = df: the same object under a second name
DfAlias(h, r) == [heap |-> h, ref |-> r]

\* df.copy(): a new object with the same content
DfCopy(h, r) ==
    LET new == NewRef(h)
    IN [heap |-> (new :> h[r]) @@ h, ref |-> new]

\* cleaned_df[name] = values: the object is changed in place
SetItem(m, name, values) ==
    [m EXCEPT !.heap[m.ref] = SetColumn(@, name, values)]

Frame(m) == m.heap[m.ref]

\* if combine_text:
CombineText(m) ==
    LET df == Frame(m)
    IN SetItem(m, "scholarship_text_raw",
               [i \in 1..Len(df.rows) |-> Str(build_scholarship_text(RowOf(df, i)))])

\* the two source columns tried in the other order
CleanTextEligibilityFirst(m) ==
    LET df == Frame(m)
        text_col == IF HasColumn(df.columns, "Eligibility")
                    THEN "Eligibility" ELSE "scholarship_text_raw"
    IN IF HasColumn(df.columns, text_col)
       THEN LET source == ColumnValues(df, text_col)
            IN [m EXCEPT !.heap[m.ref] =
                   SetColumn(@, "scholarship_text_cleaned",
                             [i \in 1..Len(df.rows) |-> Str(clean_scholarship_text(source[i]))])]
       ELSE m

\* the source column cleaned in place before it is copied
CleanTextInPlace(m) ==
    LET df == Frame(m)
        text_col == IF HasColumn(df.columns, "scholarship_text_raw")
                    THEN "scholarship_text_raw" ELSE "Eligibility"
    IN IF HasColumn(df.columns, text_col)
       THEN LET source == ColumnValues(df, text_col)
                cleaned == [i \in 1..Len(df.rows) |-> Str(clean_scholarship_text(source[i]))]
            IN SetItem(SetItem(m, text_col, cleaned), "scholarship_text_cleaned", cleaned)
       ELSE m

\* if clean_text:
CleanText(m) ==
    LET df == Frame(m)
        text_col == IF HasColumn(df.columns, "scholarship_text_raw")
                    THEN "scholarship_text_raw" ELSE "Eligibility"
    IN IF HasColumn(df.columns, text_col)
       THEN LET source == ColumnValues(df, text_col)
            IN SetItem(m, "scholarship_text_cleaned",
                       [i \in 1..Len(df.rows) |-> Str(clean_scholarship_text(source[i]))])
       ELSE m

\* the condition without the checkbox
DeduplicateGuardAlways(o, m) ==
    HasColumn(m.heap[m.ref].columns, "scholarship_text_cleaned")

\* the condition of the deduplication step
DeduplicateGuard(o, m) ==
    o.deduplicate_on_text /\ HasColumn(Frame(m).columns, "scholarship_text_cleaned")

\* cleaned_df = cleaned_df.drop_duplicates(...): a new object
Deduplicate(m) ==
    LET new == NewRef(m.heap)
    IN [heap |-> (new :> DropDuplicates(Frame(m), "scholarship_text_cleaned")) @@ m.heap,
        ref |-> new]

\* cleaned_df['scholarship_id'] = cleaned_df.index
AddScholarshipIdFromIndex(m) ==
    [m EXCEPT !.heap[m.ref] =
        SetColumn(@, "scholarship_id",
                  [i \in 1..Len(m.heap[m.ref].rows) |-> PyInt(m.heap[m.ref].rows[i].index)])]

\* cleaned_df['scholarship_id'] = range(len(cleaned_df))
AddScholarshipId(m) ==
    LET n == Len(Frame(m).rows)
    IN SetItem(m, "scholarship_id", [i \in 1..n |-> PyInt(i - 1)])

(* The body of the Apply Cleaning button, statement by statement: each      *)
(* operator is [heap, ref] after the statement it is named after, for the   *)
(* options o and the raw table df of the heap h.                            *)

Copied(o, h, df) == DfCopy(h, df)

Combined(o, h, df) ==
    IF o.combine_text THEN CombineText(Copied(o, h, df)) ELSE Copied(o, h, df)

Cleaned(o, h, df) ==
    IF o.clean_text THEN CleanText(Combined(o, h, df)) ELSE Combined(o, h, df)

Deduplicated(o, h, df) ==
    IF DeduplicateGuard(o, Cleaned(o, h, df))
    THEN Deduplicate(Cleaned(o, h, df)) ELSE Cleaned(o, h, df)

CleanedFrame(o, h, df) ==
    IF o.add_scholarship_id
    THEN AddScholarshipId(Deduplicated(o, h, df)) ELSE Deduplicated(o, h, df)

\* the four checkboxes
Options ==
    [add_scholarship_id : BOOLEAN, combine_text : BOOLEAN,
     clean_text : BOOLEAN, deduplicate_on_text : BOOLEAN]

----------------------------------------------------------------------------
(* The workspace: the four candidate files, each missing, unparsable, or     *)
(* holding a table.                                                          *)

EmptyFrame == [columns |-> <<>>, rows |-> <<>>]
Missing == [state |-> "missing", df |-> EmptyFrame]
Unparsable == [state |-> "unparsable", df |-> EmptyFrame]
FileOf(df) == [state |-> "ok", df |-> df]

\* possible_paths, in order
PossiblePaths == 1..4

\* "return None" for "continue" in the except clause: the first candidate
\* that exists decides
LoadStopsAtUnparsable ==
    LET found == {k \in PossiblePaths : workspace_files[k].state # "missing"}
        first == CHOOSE k \in found : \A j \in found : k <= j
    IN IF workspace_path # None /\ found # {} /\ workspace_files[first].state = "ok"
       THEN workspace_files[first]
       ELSE Missing

\* load_raw_scholarship_data(): the first candidate that exists and parses
load_raw_scholarship_data ==
    LET found == {k \in PossiblePaths : workspace_files[k].state = "ok"}
    IN IF workspace_path # None /\ found # {}
       THEN workspace_files[CHOOSE k \in found : \A j \in found : k <= j]
       ELSE Missing

----------------------------------------------------------------------------
(* The buttons of the page *)

\* the table a session-state entry holds, if it holds one
Held(h, r) == IF r = None THEN <<>> ELSE <<h[r]>>

\* what a Load Raw Scholarship Data click leaves in the history: whether a
\* table was returned and, when none was, the two tables held before
LoadOutcome(file) ==
    IF file.state = "ok"
    THEN <<[returned |-> TRUE, raw |-> <<>>, cleaned |-> <<>>]>>
    ELSE <<[returned |-> FALSE, raw |-> Held(heap, raw_scholarships_df),
            cleaned |-> Held(heap, cleaned_scholarships_df)]>>

\* the button without "st.session_state.cleaned_scholarships_df = None"
LoadKeepsCleaned ==
    /\ pc = "page"
    /\ LET file == load_raw_scholarship_data
       IN /\ IF file.state = "ok"
             THEN LET df == NewRef(heap)
                  IN /\ raw_scholarships_df' = RefAfter(df, df)
                     /\ cleaned_scholarships_df' = RefAfter(cleaned_scholarships_df, df)
                     /\ heap' = HeapAfter((df :> file.df) @@ heap, df, cleaned_scholarships_df)
                     /\ applied' = applied
             ELSE UNCHANGED <<raw_scholarships_df, cleaned_scholarships_df, heap, applied>>
          /\ loaded' = LoadOutcome(file)
    /\ UNCHANGED <<workspace_path, workspace_files, record, text, result, pc>>

\* if st.button("Load Raw Scholarship Data")
LoadRawScholarshipData ==
    /\ pc = "page"
    /\ LET file == load_raw_scholarship_data
       IN /\ IF file.state = "ok"
             THEN LET df == NewRef(heap)
                  IN /\ raw_scholarships_df' = RefAfter(df, df)
                     /\ cleaned_scholarships_df' = None
                     /\ heap' = HeapAfter((df :> file.df) @@ heap, df, None)
                     /\ applied' = <<>>
             ELSE UNCHANGED <<raw_scholarships_df, cleaned_scholarships_df, heap, applied>>
          /\ loaded' = LoadOutcome(file)
    /\ UNCHANGED <<workspace_path, workspace_files, record, text, result, pc>>

\* clear_data()
ClearData ==
    /\ pc = "page"
    /\ raw_scholarships_df' = None
    /\ cleaned_scholarships_df' = None
    /\ heap' = <<>>
    /\ applied' = <<>>
    /\ loaded' = <<>>
    /\ UNCHANGED <<workspace_path, workspace_files, record, text, result, pc>>

\* if st.button("Apply Cleaning"), shown when raw data is loaded
ApplyCleaning(o) ==
    /\ pc = "page"
    /\ raw_scholarships_df # None
    /\ \E after \in {SessionAfter(CleanedFrame(o, heap, raw_scholarships_df),
                                   raw_scholarships_df)} :
          /\ cleaned_scholarships_df' = after.cleaned_scholarships_df
          /\ raw_scholarships_df' = after.raw_scholarships_df
          /\ heap' = after.heap
    /\ applied' = <<[options |-> o, input |-> heap[raw_scholarships_df]]>>
    /\ loaded' = <<>>
    /\ UNCHANGED <<workspace_path, workspace_files, record, text, result, pc>>

----------------------------------------------------------------------------
(* The workspace under the page *)

\* initialize_workspace(), at the top of every run of the page: the path of
\* the workspace directory when it exists, None when it does not
initialize_workspace ==
    /\ pc = "page"
    /\ \E exists \in BOOLEAN : workspace_path' = IF exists THEN 1 ELSE None
    /\ loaded' = <<>>
    /\ UNCHANGED <<workspace_files, heap, raw_scholarships_df, cleaned_scholarships_df,
                   applied, record, text, result, pc>>

\* a candidate file is written, damaged or removed between two runs
WorkspaceFileChanges ==
    /\ pc = "page"
    /\ \E k \in PossiblePaths :
          \E file \in {Missing, Unparsable, FileOf(SessionFrame(k))} :
             workspace_files' = [workspace_files EXCEPT ![k] = file]
    /\ loaded' = <<>>
    /\ UNCHANGED <<workspace_path, heap, raw_scholarships_df, cleaned_scholarships_df,
                   applied, record, text, result, pc>>

----------------------------------------------------------------------------
(* Calls of the two text functions *)

pageVars == <<workspace_path, workspace_files, heap, raw_scholarships_df,
              cleaned_scholarships_df, applied, loaded>>

\* result = build_scholarship_text(record)
Build ==
    /\ pc = "start"
    /\ result' = build_scholarship_text(record)
    /\ pc' = "built"
    /\ UNCHANGED <<pageVars, record, text>>

\* result = clean_scholarship_text(text)
Clean ==
    /\ pc = "start"
    /\ result' = clean_scholarship_text(text)
    /\ pc' = "cleaned"
    /\ UNCHANGED <<pageVars, record, text>>

\* result = clean_scholarship_text(result)
CleanAgain ==
    /\ pc = "cleaned"
    /\ text' = Str(result)
    /\ result' = clean_scholarship_text(Str(result))
    /\ pc' = "recleaned"
    /\ UNCHANGED <<pageVars, record>>

NoRow == [columns |-> <<>>, cells |-> <<>>]

PageIdle ==
    /\ workspace_path = None
    /\ workspace_files = [k \in PossiblePaths |-> Missing]
    /\ heap = <<>>
    /\ raw_scholarships_df = None
    /\ cleaned_scholarships_df = None
    /\ applied = <<>>
    /\ loaded = <<>>

TextIdle == record = NoRow /\ text = Null /\ result = <<>> /\ pc = "page"

----------------------------------------------------------------------------
(* The page: session state as initialised, a workspace with a table *)

Init ==
    /\ workspace_path = 1
    /\ \E df \in RawFrames :
          workspace_files = [k \in PossiblePaths |-> IF k = 1 THEN FileOf(df) ELSE Missing]
    /\ heap = <<>>
    /\ raw_scholarships_df = None
    /\ cleaned_scholarships_df = None
    /\ applied = <<>>
    /\ loaded = <<>>
    /\ TextIdle

Next ==
    \/ LoadRawScholarshipData
    \/ ClearData
    \/ \E o \in Options : ApplyCleaning(o)

Spec == Init /\ [][Next]_vars

(* The page with a table of two records that differ by noise, cleaned and  *)
(* deduplicated                                                            *)

InitNoise ==
    /\ workspace_path = 1
    /\ \E df \in NoiseFrames :
          workspace_files = [k \in PossiblePaths |-> IF k = 1 THEN FileOf(df) ELSE Missing]
    /\ heap = <<>>
    /\ raw_scholarships_df = None
    /\ cleaned_scholarships_df = None
    /\ applied = <<>>
    /\ loaded = <<>>
    /\ TextIdle

NextNoise ==
    \/ LoadRawScholarshipData
    \/ ClearData
    \/ \E o \in {p \in Options : p.clean_text /\ p.deduplicate_on_text} : ApplyCleaning(o)

SpecNoise == InitNoise /\ [][NextNoise]_vars

(* The page with a table of texts with URLs, cleaned                       *)

InitURL ==
    /\ workspace_path = 1
    /\ \E df \in URLFrames :
          workspace_files = [k \in PossiblePaths |-> IF k = 1 THEN FileOf(df) ELSE Missing]
    /\ heap = <<>>
    /\ raw_scholarships_df = None
    /\ cleaned_scholarships_df = None
    /\ applied = <<>>
    /\ loaded = <<>>
    /\ TextIdle

NextURL ==
    \/ LoadRawScholarshipData
    \/ ClearData
    \/ \E o \in {p \in Options : p.clean_text} : ApplyCleaning(o)

SpecURL == InitURL /\ [][NextURL]_vars

(* The page over a workspace that changes: session state as initialised,   *)
(* any workspace                                                           *)

InitSession ==
    /\ workspace_path \in {None, 1}
    /\ workspace_files \in
          [PossiblePaths -> {Missing, Unparsable} \cup {FileOf(SessionFrame(k)) : k \in 1..4}]
    /\ \A k \in PossiblePaths :
          workspace_files[k].state = "ok" => workspace_files[k].df = SessionFrame(k)
    /\ heap = <<>>
    /\ raw_scholarships_df = None
    /\ cleaned_scholarships_df = None
    /\ applied = <<>>
    /\ loaded = <<>>
    /\ TextIdle

NextSession ==
    \/ initialize_workspace
    \/ WorkspaceFileChanges
    \/ LoadRawScholarshipData
    \/ ClearData
    \/ \E o \in Options : ApplyCleaning(o)

SpecSession == InitSession /\ [][NextSession]_vars

(* clean_scholarship_text on its own *)

InitClean ==
    /\ PageIdle
    /\ record = NoRow
    /\ text \in CleanInputs
    /\ result = <<>>
    /\ pc = "start"

NextClean == Clean \/ CleanAgain

SpecClean == InitClean /\ [][NextClean]_vars

(* clean_scholarship_text on texts of lines *)

MaxLinePieces == 6

LinePieces == {<<"a">>, <<SP>>, <<NL>>, <<"<", "b", ">">>}

InitLines ==
    /\ PageIdle
    /\ record = NoRow
    /\ text \in {Str(t) : t \in PieceTexts(LinePieces, MaxLinePieces)}
    /\ result = <<>>
    /\ pc = "start"

SpecLines == InitLines /\ [][NextClean]_vars

(* build_scholarship_text on its own: a record has each of the eight fields *)
(* absent, missing (null) or present, under labels in some order.           *)

Reverse(q) == [i \in 1..Len(q) |-> q[Len(q) + 1 - i]]

LabelOrders ==
    {RecognizedFields, Reverse(RecognizedFields) \o <<"notes">>,
     <<"notes", "Deadline", "Scholarship Name", "Benefits", "Provider",
       "Application Link", "Eligibility", "Program", "Country">>}

FieldValue(name) ==
    CASE name = "Scholarship Name" -> Str(<<"A">>)
      [] name = "Provider" -> Str(<<"P", SP, "q">>)
      [] name = "Country" -> Str(<<"C">>)
      [] name = "Eligibility" -> Str(<<"e", NL, "f">>)
      [] name = "Benefits" -> PyInt(500)
      [] name = "Program" -> Str(<<"m">>)
      [] name = "Deadline" -> PyInt(2025)
      [] name = "Application Link" -> Str(<<"w", "w", "w", ".", "x">>)
      [] OTHER -> Str(<<"n">>)

RECURSIVE RecordFrom(_, _, _)
RecordFrom(labels, state, k) ==
    IF k > Len(labels) THEN NoRow
    ELSE LET rest == RecordFrom(labels, state, k + 1)
             name == labels[k]
         IN IF state[name] = "absent" THEN rest
            ELSE [columns |-> <<name>> \o rest.columns,
                  cells |-> <<IF state[name] = "null" THEN Null ELSE FieldValue(name)>>
                            \o rest.cells]

BuildRecords ==
    {RecordFrom(labels, state, 1) :
        labels \in LabelOrders,
        state \in [{"notes"} \cup {RecognizedFields[k] : k \in 1..Len(RecognizedFields)}
                      -> {"absent", "null", "value"}]}

InitBuild ==
    /\ PageIdle
    /\ record \in BuildRecords
    /\ text = Null
    /\ result = <<>>
    /\ pc = "start"

NextBuild == Build

SpecBuild == InitBuild /\ [][NextBuild]_vars

----------------------------------------------------------------------------
(* Claims *)

ClaimFieldOrder ==
    <<"Scholarship Name", "Provider", "Country", "Eligibility", "Benefits",
      "Program", "Deadline", "Application Link">>

FieldPresent(rec, name) ==
    \E k \in 1..Len(rec.columns) : rec.columns[k] = name /\ rec.cells[k].kind # "null"

FieldBlock(rec, name) ==
    FieldChars(name) \o <<":", NL>>
    \o PyStr(rec.cells[CHOOSE k \in 1..Len(rec.columns) : rec.columns[k] = name])

RECURSIVE BlocksFrom(_, _)
BlocksFrom(rec, k) ==
    IF k > Len(ClaimFieldOrder) THEN <<>>
    ELSE IF FieldPresent(rec, ClaimFieldOrder[k])
         THEN FieldBlock(rec, ClaimFieldOrder[k])
              \o (IF \E j \in (k + 1)..Len(ClaimFieldOrder) : FieldPresent(rec, ClaimFieldOrder[j])
                  THEN <<NL>> ELSE <<>>)
              \o BlocksFrom(rec, k + 1)
         ELSE BlocksFrom(rec, k + 1)

\* C1: build_scholarship_text(R) is the newline-join of the blocks
\* "<FieldName>:\n<str(value)>" of exactly the recognized fields present and
\* non-null in R, in the fixed order whatever the order of R's labels; a record
\* with none of them gives the empty text.
C1_BuildText ==
    pc = "built" =>
        /\ result = BlocksFrom(record, 1)
        /\ (\A k \in 1..Len(ClaimFieldOrder) : ~FieldPresent(record, ClaimFieldOrder[k]))
              => result = <<>>

\* a record with labels out of the fixed order, a null field and an absent one
C1_Witness ==
    /\ pc = "built"
    /\ record.columns # <<>>
    /\ record.columns[1] = "notes"
    /\ FieldPresent(record, "Eligibility")
    /\ FieldPresent(record, "Benefits")
    /\ HasColumn(record.columns, "Provider") /\ ~FieldPresent(record, "Provider")
    /\ ~HasColumn(record.columns, "Country")
    /\ result = BlocksFrom(record, 1)
    /\ result # <<>>

\* C2: clean_scholarship_text is idempotent: cleaning a cleaned text returns
\* it unchanged (text holds the first result, result the second).
C2_Idempotent ==
    pc = "recleaned" => result = text.s

\* s has an address: an "@" with a letter on each side of it
HasEmailAddress(s) ==
    \E j \in 2..(Len(s) - 1) :
        s[j] = "@" /\ s[j - 1] \in LowerLetters /\ s[j + 1] \in LowerLetters

\* s has an "@" with a character that is not white space on each side of it
AtInsideToken(s) ==
    \E j \in 2..(Len(s) - 1) : s[j] = "@" /\ ~IsSpace(s[j - 1]) /\ ~IsSpace(s[j + 1])

Chars(s) == {s[i] : i \in 1..Len(s)}

\* C5 as stated: for a text that contains an email address, the cleaned text
\* has no token that contains "@".
C5_NoAtToken ==
    (pc = "cleaned" /\ text.kind = "str" /\ HasEmailAddress(text.s)) => "@" \notin Chars(result)

\* C5, amended: for every text, the cleaned text has no "@" with a character
\* that is not white space on each side of it (no match of \S+@\S+); an "@"
\* at the start or the end of its token is kept.
C5_NoEmailToken ==
    pc = "cleaned" => ~AtInsideToken(result)

\* a text with an email address and a token ending in "@": the address is
\* gone, the "@" of the other token is still there
C5_Witness ==
    /\ pc = "cleaned"
    /\ text.kind = "str"
    /\ HasEmailAddress(text.s)
    /\ "@" \in Chars(result)
    /\ ~AtInsideToken(result)

NonBlank(lines) == {i \in 1..Len(lines) : lines[i] # <<>>}

\* the lines that are not blank, in order, with one blank line wherever blank
\* lines lay between two of them
RECURSIVE OneBlankBetween(_, _, _)
OneBlankBetween(lines, i, last) ==
    IF i > Len(lines) THEN <<>>
    ELSE IF lines[i] = <<>> THEN OneBlankBetween(lines, i + 1, last)
    ELSE (IF last # 0 /\ last < i - 1 THEN <<<<>>, lines[i]>> ELSE <<lines[i]>>)
         \o OneBlankBetween(lines, i + 1, i)

\* C6: the cleaned text never has three newlines in a row, and its lines are
\* the non-blank lines of the text (as the earlier rules leave them) in their
\* order, with exactly one blank line wherever one or more blank lines lay
\* between two of them.
C6_BlankLines ==
    (pc = "cleaned" /\ text.kind = "str") =>
        /\ \A i \in 1..(Len(result) - 2) :
              ~(result[i] = NL /\ result[i + 1] = NL /\ result[i + 2] = NL)
        /\ IF NonBlank(CleanedLines(text.s)) = {} THEN result = <<>>
           ELSE SplitLines(result) = OneBlankBetween(CleanedLines(text.s), 1, 0)

\* three blank lines, one of them of spaces only, between two lines of text
C6_Witness ==
    /\ pc = "cleaned"
    /\ text.kind = "str"
    /\ \E i \in 1..(Len(text.s) - 4) :
          /\ ~IsSpace(text.s[i])
          /\ SubSeq(text.s, i + 1, i + 4) \in {<<NL, NL, NL, NL>>, <<NL, SP, NL, NL>>}
    /\ \E i \in 1..(Len(result) - 3) :
          /\ ~IsSpace(result[i]) /\ result[i + 1] = NL /\ result[i + 2] = NL
          /\ ~IsSpace(result[i + 3])

----------------------------------------------------------------------------
(* Apply Cleaning: the cleaned table, the table it was made from, and the  *)
(* options it was made with                                                *)

Done == applied # <<>>
In == applied[1].input
Opt == applied[1].options
Out == heap[cleaned_scholarships_df]

\* the table of the input with its cleaned texts attached, before any row is dropped
Keyed == Frame(Cleaned(Opt, <<In>>, 1))

Key(i) == Keyed.rows[i].cells[ColumnPos(Keyed.columns, "scholarship_text_cleaned")]

\* the input records that are the first with their cleaned text
FirstOccurrences == {i \in 1..Len(In.rows) : \A j \in 1..(i - 1) : Key(j) # Key(i)}

\* the index labels of the output, in order
OutIndex == [i \in 1..Len(Out.rows) |-> Out.rows[i].index]

\* the cell of an output row under a label
OutCell(i, name) == Out.rows[i].cells[ColumnPos(Out.columns, name)]

\* C3: with deduplication enabled and a cleaned text column, the output is the
\* subsequence of the input records that are the first occurrence of their
\* cleaned text: no two output records share a cleaned text, every cleaned text
\* of the input is kept once, by its earliest record, and the order is kept.
C3_KeepFirst ==
    (Done /\ Opt.deduplicate_on_text /\ HasColumn(Out.columns, "scholarship_text_cleaned")) =>
        /\ \A i, j \in 1..Len(Out.rows) :
              i # j => OutCell(i, "scholarship_text_cleaned") # OutCell(j, "scholarship_text_cleaned")
        /\ {OutIndex[i] + 1 : i \in 1..Len(Out.rows)} = FirstOccurrences
        /\ \A i \in 1..(Len(Out.rows) - 1) : OutIndex[i] < OutIndex[i + 1]
        /\ \A i \in 1..Len(Out.rows) :
              /\ OutCell(i, "scholarship_text_cleaned") = Key(OutIndex[i] + 1)
              /\ \A k \in 1..Len(In.columns) :
                    In.columns[k] \notin {"scholarship_text_raw", "scholarship_text_cleaned",
                                          "scholarship_id"}
                       => OutCell(i, In.columns[k]) = In.rows[OutIndex[i] + 1].cells[k]

\* two records with different Eligibility texts and the same cleaned text: the
\* second is dropped
C3_Witness ==
    /\ Done /\ Opt.deduplicate_on_text /\ Opt.clean_text
    /\ HasColumn(In.columns, "Eligibility")
    /\ Len(In.rows) >= 2
    /\ RowGet(RowOf(In, 1), "Eligibility") # RowGet(RowOf(In, 2), "Eligibility")
    /\ Key(1) = Key(2)
    /\ Len(Out.rows) < Len(In.rows)
    /\ OutIndex[1] = 0

\* C4: with 'Add scholarship_id' enabled the record at position i (from 0) of
\* the output has scholarship_id = i, whatever the other options; the five
\* records with one duplicate give four records with ids 0, 1, 2, 3 in the
\* order of the first occurrences.
C4_IdIsPosition ==
    (Done /\ Opt.add_scholarship_id) =>
        /\ HasColumn(Out.columns, "scholarship_id")
        /\ \A i \in 1..Len(Out.rows) : OutCell(i, "scholarship_id") = PyInt(i - 1)
        /\ (In = FiveRecords /\ Opt.combine_text /\ Opt.clean_text /\ Opt.deduplicate_on_text)
              => OutIndex = <<0, 1, 3, 4>>

\* the five records, all options enabled: a row was dropped before the ids
C4_Witness ==
    /\ Done /\ Opt.add_scholarship_id /\ Opt.combine_text /\ Opt.clean_text
    /\ Opt.deduplicate_on_text
    /\ In = FiveRecords
    /\ Len(Out.rows) = 4
    /\ OutCell(4, "scholarship_id") = PyInt(3)

\* C8: Apply Cleaning leaves the stored raw table as it was, for every
\* combination of the options: same records, same fields, same values.
C8_SourceNotMutated ==
    Done => (raw_scholarships_df # None /\ heap[raw_scholarships_df] = In)

\* a cleaned table with columns added and a row dropped, the raw table intact
C8_Witness ==
    /\ Done
    /\ Len(Out.columns) = Len(In.columns) + 3
    /\ Len(Out.rows) < Len(In.rows)
    /\ heap[raw_scholarships_df] = In
    /\ cleaned_scholarships_df # raw_scholarships_df

\* the text the cleaned text of input record i is made from, when there is one
SourceText(i) ==
    IF Opt.combine_text THEN Str(build_scholarship_text(RowOf(In, i)))
    ELSE IF HasColumn(In.columns, "scholarship_text_raw")
         THEN RowGet(RowOf(In, i), "scholarship_text_raw")
    ELSE RowGet(RowOf(In, i), "Eligibility")

HasSource ==
    \/ Opt.combine_text
    \/ HasColumn(In.columns, "scholarship_text_raw")
    \/ HasColumn(In.columns, "Eligibility")

\* C9: with 'Apply text cleaning' enabled, scholarship_text_cleaned of a record
\* is clean_scholarship_text of its scholarship_text_raw when the table has
\* that field, else of its Eligibility when the table has that one; with
\* neither, no scholarship_text_cleaned is attached and the action completes.
C9_CleanedFrom ==
    (Done /\ Opt.clean_text) =>
        IF HasSource
        THEN /\ HasColumn(Out.columns, "scholarship_text_cleaned")
             /\ \A i \in 1..Len(Out.rows) :
                   OutCell(i, "scholarship_text_cleaned")
                      = Str(clean_scholarship_text(SourceText(OutIndex[i] + 1)))
        ELSE /\ HasColumn(Out.columns, "scholarship_text_cleaned")
                   <=> HasColumn(In.columns, "scholarship_text_cleaned")
             /\ HasColumn(In.columns, "scholarship_text_cleaned") =>
                   \A i \in 1..Len(Out.rows) :
                      OutCell(i, "scholarship_text_cleaned")
                         = RowGet(RowOf(In, OutIndex[i] + 1), "scholarship_text_cleaned")

\* a table with scholarship_text_raw, nothing combined: the cleaned text comes
\* from that column and differs from it
C9_Witness ==
    /\ Done /\ Opt.clean_text /\ ~Opt.combine_text
    /\ HasColumn(In.columns, "scholarship_text_raw")
    /\ Len(Out.rows) >= 1
    /\ RowGet(RowOf(In, 1), "scholarship_text_raw") = Str(<<"x", SP>>)
    /\ OutCell(1, "scholarship_text_cleaned") = Str(<<"x">>)

\* a table with neither field: the action completes, nothing is attached
C9_WitnessNoSource ==
    /\ Done /\ Opt.clean_text /\ ~Opt.combine_text
    /\ In.columns = <<"notes">>
    /\ Out.columns = <<"notes">>

\* C10: records are dropped only when 'Deduplicate on cleaned text' is enabled
\* and the table has a scholarship_text_cleaned field; otherwise the output has
\* every input record, in the input order.
C10_DropsOnlyWhenDeduplicating ==
    (Done /\ (~Opt.deduplicate_on_text \/ ~HasColumn(Out.columns, "scholarship_text_cleaned"))) =>
        /\ Len(Out.rows) = Len(In.rows)
        /\ \A i \in 1..Len(In.rows) :
              /\ Out.rows[i].index = In.rows[i].index
              /\ \A k \in 1..Len(In.columns) :
                    In.columns[k] \notin {"scholarship_text_raw", "scholarship_text_cleaned",
                                          "scholarship_id"}
                       => OutCell(i, In.columns[k]) = In.rows[i].cells[k]

\* deduplication disabled, two records with the same cleaned text both kept
C10_Witness ==
    /\ Done /\ ~Opt.deduplicate_on_text /\ Opt.clean_text
    /\ Len(Out.rows) = Len(In.rows)
    /\ Len(Out.rows) >= 2
    /\ HasColumn(Out.columns, "scholarship_text_cleaned")
    /\ OutCell(1, "scholarship_text_cleaned") = OutCell(2, "scholarship_text_cleaned")

----------------------------------------------------------------------------
(* Noise *)

\* s with every run of spaces and tabs as one space, and every run of two
\* newlines or more as two
RECURSIVE RunsSquashed(_, _)
RunsSquashed(s, i) ==
    IF i > Len(s) THEN <<>>
    ELSE IF s[i] \in {SP, TAB}
         THEN (IF i > 1 /\ s[i - 1] \in {SP, TAB} THEN <<>> ELSE <<SP>>) \o RunsSquashed(s, i + 1)
    ELSE IF s[i] = NL /\ i > 2 /\ s[i - 1] = NL /\ s[i - 2] = NL
         THEN RunsSquashed(s, i + 1)
    ELSE <<s[i]>> \o RunsSquashed(s, i + 1)

LowerCase(s) == [i \in 1..Len(s) |-> IF s[i] = "A" THEN "a" ELSE s[i]]

\* the raw text of input record i: the combined text, or the Eligibility text
RawText(i) == SourceText(i).s

SameButWhitespaceRuns(s, t) == RunsSquashed(s, 1) = RunsSquashed(t, 1)

SameButCaseAndWhitespaceRuns(s, t) ==
    LowerCase(RunsSquashed(s, 1)) = LowerCase(RunsSquashed(t, 1))

\* the phone-number rule replaces nothing when s is cleaned
PhoneRuleIdle(s) == NoPhones(s) = NoEmails(s)

TwoRecordsDeduplicated ==
    /\ Done /\ Opt.clean_text /\ Opt.deduplicate_on_text
    /\ Len(In.rows) = 2
    /\ In.columns = <<"Eligibility">>
    /\ In.rows[1].cells[1].kind = "str" /\ In.rows[2].cells[1].kind = "str"

\* C7 as stated: two records whose raw texts differ only in letter case or in
\* the lengths of runs of spaces, tabs and blank lines get the same cleaned
\* text, and deduplication keeps only the first.
C7_NoiseCollapses ==
    (TwoRecordsDeduplicated /\ SameButCaseAndWhitespaceRuns(RawText(1), RawText(2))) =>
        /\ Key(1) = Key(2)
        /\ OutIndex = <<0>>

\* C7, amended: two records whose raw texts differ only in the lengths of runs
\* of spaces and tabs and of blank lines, the phone-number rule matching in
\* neither, get the same cleaned text, and deduplication keeps only the first.
C7_WhitespaceNoiseCollapses ==
    (/\ TwoRecordsDeduplicated
     /\ SameButWhitespaceRuns(RawText(1), RawText(2))
     /\ PhoneRuleIdle(RawText(1)) /\ PhoneRuleIdle(RawText(2))) =>
        /\ Key(1) = Key(2)
        /\ OutIndex = <<0>>

\* two different texts with digits, one with a longer run of white space: one
\* cleaned text, the second record dropped
C7_Witness ==
    /\ TwoRecordsDeduplicated
    /\ RawText(1) # RawText(2)
    /\ SameButWhitespaceRuns(RawText(1), RawText(2))
    /\ PhoneRuleIdle(RawText(1)) /\ PhoneRuleIdle(RawText(2))
    /\ "7" \in Chars(RawText(1))
    /\ TAB \in Chars(RawText(2))
    /\ Key(1) = Key(2)
    /\ OutIndex = <<0>>

----------------------------------------------------------------------------
(* clean_scholarship_text on texts with tags and entity references *)

MaxMarkupPieces == 4

MarkupPieces ==
    {<<"a">>, <<SP>>, <<NL>>, <<"<", "b", ">">>, <<"&", "a", ";">>, <<"<">>, <<">">>, <<";">>}

InitMarkup ==
    /\ PageIdle
    /\ record = NoRow
    /\ text \in {Str(t) : t \in PieceTexts(MarkupPieces, MaxMarkupPieces)}
    /\ result = <<>>
    /\ pc = "start"

SpecMarkup == InitMarkup /\ [][NextClean]_vars

\* s has a substring of the shape <...>
TagShaped(s) ==
    \E i \in 1..Len(s), j \in 1..Len(s) :
        /\ i + 1 < j
        /\ s[i] = "<" /\ s[j] = ">"
        /\ \A k \in (i + 1)..(j - 1) : s[k] # ">"

\* s has a substring of the shape &word;
EntityShaped(s) ==
    \E i \in 1..Len(s), j \in 1..Len(s) :
        /\ i + 1 < j
        /\ s[i] = "&" /\ s[j] = ";"
        /\ \A k \in (i + 1)..(j - 1) : s[k] \in LowerLetters

Words == {<<"a">>, <<"a", "a">>}

Markups == {<<"<", "b", ">">>, <<"&", "a", ";">>}

\* the text is a word, a tag or an entity reference, and a word
WordMarkupWord(u, m, v) == pc = "cleaned" /\ text.kind = "str" /\ text.s = u \o m \o v

\* C11 as stated: a tag or an entity reference is deleted with nothing put in
\* its place, so the characters on its two sides are adjacent in the output.
C11_MarkupDeleted ==
    \A u \in Words, m \in Markups, v \in Words :
        WordMarkupWord(u, m, v) => result = u \o v

\* C11, amended: no tag-shaped substring and no entity reference is left in
\* the output, and each is replaced by one space, as an email is: the
\* characters on its two sides are one space apart in the output.
C11_MarkupReplacedBySpace ==
    /\ pc = "cleaned" => ~TagShaped(result) /\ ~EntityShaped(result)
    /\ \A u \in Words, m \in Markups, v \in Words :
          WordMarkupWord(u, m, v) => result = u \o <<SP>> \o v

\* "a<b>aa" cleaned to "a aa"
C11_Witness ==
    /\ WordMarkupWord(<<"a">>, <<"<", "b", ">">>, <<"a", "a">>)
    /\ result = <<"a", SP, "a", "a">>

----------------------------------------------------------------------------
(* URLs *)

\* s has p at position i with a character that is not white space after it
PrefixOfToken(s, i, p) ==
    /\ HasPrefix(s, i, p)
    /\ i + Len(p) <= Len(s)
    /\ ~IsSpace(s[i + Len(p)])

Contains(s, p) == \E i \in 1..Len(s) : HasPrefix(s, i, p)

\* s has "http://", "https://" or "www." with a character that is not white
\* space right after it
URLLike(s) ==
    \E i \in 1..Len(s) :
        \/ PrefixOfToken(s, i, <<"h", "t", "t", "p", ":", "/", "/">>)
        \/ PrefixOfToken(s, i, <<"h", "t", "t", "p", "s", ":", "/", "/">>)
        \/ PrefixOfToken(s, i, <<"w", "w", "w", ".">>)

AllOptions ==
    /\ Opt.add_scholarship_id /\ Opt.combine_text
    /\ Opt.clean_text /\ Opt.deduplicate_on_text

TwoEmailAndURLRecords ==
    Done /\ In = FrameOf(<<"Eligibility">>, <<<<EmailAndURL>>, <<EmailAndURL>>>>)

\* C12: no cleaned text has a URL-like token ("http://", "https://" or "www."
\* followed by a character that is not white space), and two identical records
\* with Eligibility "Email: x@y.com   see   www.foo.com" cleaned with all
\* options give one record, with scholarship_id 0 and a cleaned text with
\* neither "@" nor "www.".
C12_NoURLToken ==
    /\ (Done /\ Opt.clean_text) =>
          /\ HasColumn(Out.columns, "scholarship_text_cleaned")
          /\ \A i \in 1..Len(Out.rows) :
                ~URLLike(OutCell(i, "scholarship_text_cleaned").s)
    /\ (TwoEmailAndURLRecords /\ AllOptions) =>
          /\ Len(Out.rows) = 1
          /\ OutCell(1, "scholarship_id") = PyInt(0)
          /\ "@" \notin Chars(OutCell(1, "scholarship_text_cleaned").s)
          /\ ~Contains(OutCell(1, "scholarship_text_cleaned").s, <<"w", "w", "w", ".">>)

\* the two identical records cleaned with all options: one record left, its
\* cleaned text the label and the words around the address and the URL
C12_Witness ==
    /\ TwoEmailAndURLRecords /\ AllOptions
    /\ Len(Out.rows) = 1
    /\ Contains(RowGet(RowOf(In, 1), "Eligibility").s, <<"w", "w", "w", ".", "f">>)
    /\ OutCell(1, "scholarship_text_cleaned")
          = Str(<<"E", "l", "i", "g", "i", "b", "i", "l", "i", "t", "y", ":", NL,
                  "E", "m", "a", "i", "l", ":", SP, "s", "e", "e">>)

----------------------------------------------------------------------------
(* Values that are not strings *)

\* C13: clean_scholarship_text of a value that is not a string (a missing
\* value, a number) is the empty string: a record whose source text is not a
\* string gets scholarship_text_cleaned = "".
C13_NonStringCleansToEmpty ==
    (Done /\ Opt.clean_text /\ HasSource) =>
        \A i \in 1..Len(Out.rows) :
            SourceText(OutIndex[i] + 1).kind # "str"
               => OutCell(i, "scholarship_text_cleaned") = Str(<<>>)

\* a record with a missing Eligibility and one with a text, nothing combined:
\* the first has the empty cleaned text, the second has not
C13_Witness ==
    /\ Done /\ Opt.clean_text /\ ~Opt.combine_text /\ ~Opt.deduplicate_on_text
    /\ In.columns = <<"Eligibility">>
    /\ Len(In.rows) = 2
    /\ In.rows[1].cells[1] = Null
    /\ In.rows[2].cells[1].kind = "str"
    /\ OutCell(1, "scholarship_text_cleaned") = Str(<<>>)
    /\ OutCell(2, "scholarship_text_cleaned") # Str(<<>>)

\* a scholarship_text_raw column of numbers: the cleaned text is empty
C13_WitnessNumber ==
    /\ Done /\ Opt.clean_text /\ ~Opt.combine_text
    /\ In.columns = <<"scholarship_text_raw">>
    /\ Len(In.rows) >= 1
    /\ In.rows[1].cells[1] = PyInt(7)
    /\ OutCell(1, "scholarship_text_cleaned") = Str(<<>>)

----------------------------------------------------------------------------
(* The fields of the input in the output *)

\* the input record an output record derives from
InRow(i) == In.rows[OutIndex[i] + 1]

\* the labels Apply Cleaning assigns to, in the order of its statements
Written ==
    (IF Opt.combine_text THEN <<"scholarship_text_raw">> ELSE <<>>)
    \o (IF Opt.clean_text /\ HasSource THEN <<"scholarship_text_cleaned">> ELSE <<>>)
    \o (IF Opt.add_scholarship_id THEN <<"scholarship_id">> ELSE <<>>)

IsWritten(name) == \E k \in 1..Len(Written) : Written[k] = name

IsRecognized(name) == \E k \in 1..Len(RecognizedFields) : RecognizedFields[k] = name

\* C14 as stated: every input field that is not one of the eight recognized
\* fields, one named scholarship_text_raw, scholarship_text_cleaned or
\* scholarship_id included, has in every output record the value of the input
\* record it derives from, for every combination of options.
C14_UnrecognizedPassThrough ==
    Done =>
        \A i \in 1..Len(Out.rows), k \in 1..Len(In.columns) :
            ~IsRecognized(In.columns[k]) => OutCell(i, In.columns[k]) = InRow(i).cells[k]

\* C14, amended: every input field, except one with the name of a synthetic
\* field the options assign to, has in every output record the value of the
\* input record it derives from; the fields of the output are those of the
\* input, in order, then the assigned synthetic fields the input had not.
C14_UnwrittenPassThrough ==
    Done =>
        /\ \A i \in 1..Len(Out.rows), k \in 1..Len(In.columns) :
              ~IsWritten(In.columns[k]) => OutCell(i, In.columns[k]) = InRow(i).cells[k]
        /\ Out.columns
              = In.columns \o SelectSeq(Written, LAMBDA name : ~HasColumn(In.columns, name))

\* a table with notes, every option on: notes untouched, three fields appended
C14_Witness ==
    /\ Done /\ AllOptions
    /\ In.columns = <<"notes">>
    /\ Len(Out.rows) >= 1
    /\ InRow(1).cells[1] = Str(<<"x", SP>>)
    /\ OutCell(1, "notes") = Str(<<"x", SP>>)
    /\ Out.columns = <<"notes", "scholarship_text_raw", "scholarship_text_cleaned",
                       "scholarship_id">>

\* a table with a scholarship_id of its own, ids added: the field is overwritten
C14_WitnessOverwritten ==
    /\ Done /\ Opt.add_scholarship_id
    /\ In.columns = <<"scholarship_id">>
    /\ Out.columns = <<"scholarship_id">>
    /\ Len(Out.rows) >= 1
    /\ InRow(1).cells[1] = Str(<<"x", SP>>)
    /\ OutCell(1, "scholarship_id") = PyInt(0)

----------------------------------------------------------------------------
(* clean_scholarship_text on texts of white space and of what the rules     *)
(* replace by a space                                                       *)

MaxSpacePieces == 3

SpacePieces ==
    {<<"a">>, <<SP>>, <<TAB>>, <<NL>>, <<CR>>, <<NBSP>>, <<"<", "b", ">">>, <<"&", "a", ";">>,
     <<BULLET>>, <<"a", "@", "a">>, <<"w", "w", "w", ".", "a">>,
     <<"1", "2", "3", "4", "5", "6", "7", "8", "9">>}

InitSpace ==
    /\ PageIdle
    /\ record = NoRow
    /\ text \in {Str(t) : t \in PieceTexts(SpacePieces, MaxSpacePieces)}
    /\ result = <<>>
    /\ pc = "start"

SpecSpace == InitSpace /\ [][NextClean]_vars

\* s neither starts nor ends with white space
Trimmed(s) == s = <<>> \/ (~IsSpace(s[1]) /\ ~IsSpace(s[Len(s)]))

\* the lines of s: what lies between two newlines, or between one and an end of s
LineAt(s, i, j) ==
    /\ i <= j + 1
    /\ i = 1 \/ s[i - 1] = NL
    /\ j = Len(s) \/ s[j + 1] = NL
    /\ \A k \in i..j : s[k] # NL

\* C15: the cleaned text has no tab, no two spaces in a row, no line that
\* starts or ends with white space, and no white space at its start or end.
C15_WhitespaceNormalForm ==
    pc = "cleaned" =>
        /\ TAB \notin Chars(result)
        /\ \A i \in 1..(Len(result) - 1) : ~(result[i] = SP /\ result[i + 1] = SP)
        /\ \A i \in 1..(Len(result) + 1), j \in 0..Len(result) :
              LineAt(result, i, j) => Trimmed(SubSeq(result, i, j))
        /\ Trimmed(result)

\* a bullet and a tab in a row: two spaces come of them and one is left
C15_Witness ==
    /\ pc = "cleaned"
    /\ text = Str(<<BULLET, TAB, "a">>)
    /\ result = <<"-", SP, "a">>

----------------------------------------------------------------------------
(* The session state *)

\* C16: whenever cleaned_scholarships_df is not None, raw_scholarships_df is
\* not None and the cleaned table is the one Apply Cleaning made from the raw
\* table now stored.
C16_CleanedFromStoredRaw ==
    cleaned_scholarships_df # None =>
        /\ raw_scholarships_df # None
        /\ Done
        /\ In = heap[raw_scholarships_df]
        /\ Out = Frame(CleanedFrame(Opt, <<In>>, 1))

\* a table loaded from the second file and cleaned, the first file there again
\* since: the cleaned table is the one made from the table stored
C16_Witness ==
    /\ cleaned_scholarships_df # None
    /\ raw_scholarships_df # None
    /\ heap[raw_scholarships_df] = SessionFrame(2)
    /\ workspace_files[1].state = "ok"
    /\ Opt.add_scholarship_id
    /\ OutCell(1, "Scholarship Name") = Str(<<"B">>)

\* the candidates that exist and parse
Loadable == {k \in PossiblePaths : workspace_files[k].state = "ok"}

\* the first of them in the order of possible_paths
IsFirstLoadable(k) == k \in Loadable /\ \A j \in 1..(k - 1) : j \notin Loadable

LoadFails == workspace_path = None \/ Loadable = {}

\* C17: a Load Raw Scholarship Data that finds no workspace path, or no
\* candidate file that exists and parses, leaves raw_scholarships_df and
\* cleaned_scholarships_df as they were; otherwise the table of the first
\* candidate that exists and parses is stored, the candidates before it
\* that are missing or fail to parse being passed over.
C17_FailedLoadChangesNothing ==
    loaded # <<>> =>
        IF LoadFails
        THEN /\ ~loaded[1].returned
             /\ Held(heap, raw_scholarships_df) = loaded[1].raw
             /\ Held(heap, cleaned_scholarships_df) = loaded[1].cleaned
        ELSE /\ loaded[1].returned
             /\ raw_scholarships_df # None
             /\ cleaned_scholarships_df = None
             /\ \A k \in PossiblePaths :
                   IsFirstLoadable(k) => heap[raw_scholarships_df] = workspace_files[k].df

\* a load that failed with a raw and a cleaned table stored: both still there
C17_Witness ==
    /\ loaded # <<>>
    /\ ~loaded[1].returned
    /\ workspace_path # None
    /\ \E k \in PossiblePaths : workspace_files[k].state = "unparsable"
    /\ raw_scholarships_df # None
    /\ cleaned_scholarships_df # None
    /\ loaded[1].raw = <<heap[raw_scholarships_df]>>
    /\ loaded[1].cleaned = <<heap[cleaned_scholarships_df]>>

\* a load that passed over a file that does not parse and took the next one
C17_WitnessSkipped ==
    /\ loaded # <<>>
    /\ loaded[1].returned
    /\ workspace_files[1].state = "missing"
    /\ workspace_files[2].state = "unparsable"
    /\ workspace_files[3].state = "ok"
    /\ heap[raw_scholarships_df] = SessionFrame(3)

====
